---- MODULE Spec2Model ----
(***************************************************************************)
(* Prompt resolution of src/prompts/index.ts: processPrompt (the recursive *)
(* resolver), readPrompts (the batch orchestrator) and                     *)
(* readProviderPromptMap (the provider-prompt mapper).                     *)
(*                                                                         *)
(* processPrompt is an async function that awaits its own recursive calls: *)
(* it is modelled as a stack of frames, one per active call, each with a   *)
(* position (pc).  JavaScript values are tagged records.                   *)
(***************************************************************************)
EXTENDS Integers, Sequences, FiniteSets, TLC

VARIABLES
    entry,              \* which exported function the caller invoked
    promptPartials,     \* readPrompts: normalizeInput's result (line 180)
    envDisableWarning,  \* getEnvBool('PROMPTFOO_DISABLE_NO_VARIABLE_WARNING')
    initialDepth,       \* maxRecursionDepth of the outermost processPrompt call
    idx,                \* readPrompts: position of the for loop of line 183
    stack,              \* active processPrompt calls, outermost first
    ret,                \* value a processPrompt call has just resolved to
    prompts,            \* readPrompts: const prompts (line 181)
    promptsWithoutVars, \* readPrompts: const promptsWithoutVars (line 182)
    status,             \* "running", "returned" or "threw"
    error,              \* the message of the Error thrown
    warnings,           \* what logger.warn was given, in order
    last,               \* history: the processPrompt call that completed last
    log,                \* history: collaborator calls and call boundaries
    providers,          \* readProviderPromptMap: config.providers
    parsedPrompts,      \* readProviderPromptMap: parsedPrompts
    pidx,               \* readProviderPromptMap: position of the loop of line 55
    pret                \* readProviderPromptMap: const ret (line 36)

vars == <<entry, promptPartials, envDisableWarning, initialDepth, idx, stack,
          ret, prompts, promptsWithoutVars, status, error, warnings, last, log,
          providers, parsedPrompts, pidx, pret>>

resolverVars == <<promptPartials, envDisableWarning, initialDepth, idx, stack,
                  ret, prompts, promptsWithoutVars, warnings, last, log>>
mapperVars == <<providers, parsedPrompts, pidx, pret>>

----------------------------------------------------------------------------
(* Bounds of the model.                                                    *)
MaxPartials == 2
MaxGlob == 2
MaxBudget == 2
MaxProviders == 2

(* Program constants.                                                      *)
DefaultMaxRecursionDepth == 1
MaxExamples == 3
ExampleChars == 50

----------------------------------------------------------------------------
(* JavaScript values.                                                      *)
Undef == [t |-> "undefined", s |-> "", a |-> <<>>, o |-> <<>>]
Str(x) == [t |-> "string", s |-> x, a |-> <<>>, o |-> <<>>]
Num(x) == [t |-> "number", s |-> x, a |-> <<>>, o |-> <<>>]
Fn(x) == [t |-> "function", s |-> x, a |-> <<>>, o |-> <<>>]
Arr(x) == [t |-> "array", s |-> "", a |-> x, o |-> <<>>]
Obj(x) == [t |-> "object", s |-> "", a |-> <<>>, o |-> x]

IsString(v) == v.t = "string"
Truthy(v) ==
    \/ v.t \in {"function", "array", "object"}
    \/ v.t = "string" /\ v.s # ""
    \/ v.t = "number" /\ v.s \notin {"0", "NaN"}

Min(a, b) == IF a < b THEN a ELSE b

(* String.prototype.substring(0, n)                                        *)
Substring0(s, n) == SubSeq(s, 1, Min(n, Len(s)))

Contains(s, sub) ==
    \E i \in 1..(Len(s) - Len(sub) + 1) : SubSeq(s, i, i + Len(sub) - 1) = sub

StartsWith(s, pre) == Len(pre) <= Len(s) /\ SubSeq(s, 1, Len(pre)) = pre

LastIndexOf(s, ch) ==
    LET hits == {i \in 1..Len(s) : SubSeq(s, i, i) = ch}
    IN  IF hits = {} THEN 0 ELSE CHOOSE i \in hits : \A j \in hits : j <= i

(* JSON.stringify of a value (the strings of the model need no escaping).  *)
JSONstringify(v) ==
    CASE v.t = "string" -> "\"" \o v.s \o "\""
      [] v.t = "number" -> v.s
      [] OTHER -> "undefined"

(* A PromptPartial / Prompt: { raw, label?, function? }.                   *)
Partial(r, l, f) == [raw |-> r, label |-> l, function |-> f]

RECURSIVE Flatten(_)
Flatten(ss) == IF ss = <<>> THEN <<>> ELSE Head(ss) \o Flatten(Tail(ss))

----------------------------------------------------------------------------
(* Collaborators of processPrompt whose code lives in other modules.  Each *)
(* is a function of its arguments alone, defined over the strings below.   *)

GlobMagic == {"*", "?", "["}

HasMagic(s) == \E c \in GlobMagic : Contains(s, c)

UpperCase == "ABCDEFGHIJKLMNOPQRSTUVWXYZ"
LowerCase == "abcdefghijklmnopqrstuvwxyz"

LowerChar(c) ==
    IF Contains(UpperCase, c)
    THEN LET i == CHOOSE k \in 1..Len(UpperCase) : SubSeq(UpperCase, k, k) = c
         IN  SubSeq(LowerCase, i, i)
    ELSE c

RECURSIVE ToLowerCase(_)
ToLowerCase(s) ==
    IF s = "" THEN ""
    ELSE LowerChar(SubSeq(s, 1, 1)) \o ToLowerCase(SubSeq(s, 2, Len(s)))

(* The trailing dot-segment of the last path component, lower-cased.       *)
Extension(path) ==
    LET dot == LastIndexOf(path, ".")
        sep == LastIndexOf(path, "/")
    IN  IF dot = 0 \/ dot <= sep + 1 \/ dot = Len(path)
        THEN Undef
        ELSE Str(ToLowerCase(SubSeq(path, dot, Len(path))))

Basename(path) == SubSeq(path, LastIndexOf(path, "/") + 1, Len(path))
Dirname(path) ==
    LET sep == LastIndexOf(path, "/")
    IN  IF sep <= 1 THEN "" ELSE SubSeq(path, 1, sep - 1)

(* utils.maybeFilePath: does the text plausibly name something on disk?    *)
maybeFilePath(s) ==
    /\ ~Contains(s, "\n")
    /\ \/ StartsWith(s, "file://")
       \/ Contains(s, "/")
       \/ Contains(s, "\\")
       \/ Contains(s, "*")
       \/ LET e == Extension(s)
          IN  IsString(e) /\ Len(e.s) <= 6 /\ ~Contains(e.s, " ")

JoinPath(basePath, p) ==
    IF StartsWith(p, "/") \/ basePath = "" THEN p ELSE basePath \o "/" \o p

(* util.parsePathOrGlob(basePath, raw)                                     *)
parsePathOrGlob(basePath, raw) ==
    LET name == IF StartsWith(raw, "file://")
                THEN SubSeq(raw, 8, Len(raw)) ELSE raw
    IN  [extension |-> Extension(name),
         isPathPattern |-> HasMagic(name),
         filePath |-> JoinPath(basePath, name)]

(* util.isJavascriptFile(extension)                                        *)
isJavascriptFile(ext) == ext \in {".js", ".cjs", ".mjs", ".ts", ".cts", ".mts"}

(* processors/string.processString(prompt)                                 *)
processString(prompt) ==
    << Partial(prompt.raw,
               IF prompt.label.t = "undefined" THEN prompt.raw ELSE prompt.label,
               Undef) >>

(* util/templates.extractVariablesFromTemplates([raw]): is any {{name}}    *)
(* token present?                                                          *)
HasVariables(raw) ==
    \E i \in 1..(Len(raw) - 1) : \E j \in (i + 3)..(Len(raw) - 1) :
        /\ SubSeq(raw, i, i + 1) = "{{"
        /\ SubSeq(raw, j, j + 1) = "}}"

(* filePath.replace(/\\/g, '/') of line 120                                *)
RECURSIVE ForwardSlashes(_)
ForwardSlashes(s) ==
    IF s = "" THEN ""
    ELSE (IF SubSeq(s, 1, 1) = "\\" THEN "/" ELSE SubSeq(s, 1, 1))
            \o ForwardSlashes(SubSeq(s, 2, Len(s)))

----------------------------------------------------------------------------
(* The file system and the inputs the model explores.                      *)
BasePath == "/w"
PromptDir == "/w/prompts"
FileNames == {"b.json", "c.foo", "[d].txt"}
LongText ==
    "You are a helpful assistant that answers every question in great detail."

InjectiveSeqs(S, n) ==
    {q \in UNION {[1..k -> S] : k \in 0..n} :
        \A i, j \in DOMAIN q : i # j => q[i] # q[j]}

(* What globSync may return for a pattern: any listing of distinct files   *)
(* of the pattern's directory, in any order.                               *)
GlobListings(pattern) ==
    IF Dirname(pattern) = PromptDir
    THEN InjectiveSeqs({PromptDir \o "/" \o f : f \in FileNames}, MaxGlob)
    ELSE {<<>>}

(* What a format handler returns for a file of the file system.            *)
HandlerResult(handler, filePath, prompt) ==
    LET label == IF Truthy(prompt.label) THEN prompt.label ELSE Str(filePath)
        name == Basename(filePath)
    IN  CASE name = "a.txt" -> << Partial(Str("Summarize {{text}}"), label, Undef) >>
          [] name = "b.json" -> << Partial(Str("Answer briefly."), label, Undef),
                                   Partial(Str(LongText), Undef, Undef),
                                   Partial(Str("Translate {{text}}"), label, Undef) >>
          [] name = "[d].txt" -> << Partial(Str("Be concise."), label, Undef) >>
          [] OTHER -> <<>>

(* Handlers whose file may be malformed, so that the handler throws.       *)
MayFail(handler) == handler = "processJsonFile"

InputPartials ==
    { Partial(Str("Hello {{name}}"), Str("greeting"), Undef),
      Partial(Str(LongText), Undef, Undef),
      Partial(Str("prompts/*"), Undef, Undef),
      Partial(Str("prompts/a.txt"), Undef, Undef),
      Partial(Str("notes.foo"), Undef, Undef),
      Partial(Str("prompts/*"), Undef, Fn("myPrompt")),
      Partial(Num("42"), Undef, Fn("myPrompt")) }

(* Every string a run can meet, and the collaborators' answers on them,    *)
(* computed once.                                                          *)
HandlerRaws ==
    {"Summarize {{text}}", "Answer briefly.", LongText, "Translate {{text}}",
     "Be concise."}
Strings ==
    {p.raw.s : p \in {q \in InputPartials : IsString(q.raw)}}
        \cup {PromptDir \o "/" \o f : f \in FileNames}
        \cup HandlerRaws
IsFilePath == [s \in Strings |-> maybeFilePath(s)]
Parsed == [s \in Strings |-> parsePathOrGlob(BasePath, s)]
Variables == [s \in Strings |-> HasVariables(s)]
Listings == [s \in {Parsed[t].filePath : t \in Strings} |->
                GlobListings(ForwardSlashes(s))]

----------------------------------------------------------------------------
(* processPrompt (lines 88-167).                                           *)

NoRet == [ok |-> FALSE, val |-> <<>>]
NoCall == [prompt |-> Partial(Undef, Undef, Undef), depth |-> 0, kind |-> "none",
           result |-> <<>>, globbedPath |-> <<>>, children |-> <<>>,
           trail |-> <<>>, nesting |-> 0]

Frame(prompt, depth) ==
    [prompt |-> prompt, depth |-> depth, pc |-> "enter",
     filePath |-> "", extension |-> Undef,
     globbedPath |-> <<>>, gi |-> 1, prompts |-> <<>>,
     children |-> <<>>, trail |-> <<>>]

Top == stack[Len(stack)]
Running == status = "running" /\ stack # <<>>
SetTop(f) == [stack EXCEPT ![Len(stack)] = f]

(* line 119: if (isPathPattern && maxRecursionDepth > 0)                   *)
ShouldExpandMutant(isPathPattern, maxRecursionDepth) == isPathPattern
ShouldExpand(isPathPattern, maxRecursionDepth) ==
    isPathPattern /\ maxRecursionDepth > 0

(* line 131: maxRecursionDepth - 1                                         *)
ChildDepthMutant(maxRecursionDepth) == maxRecursionDepth
ChildDepth(maxRecursionDepth) == maxRecursionDepth - 1

(* line 100: return [prompt as Prompt]                                     *)
FunctionResultMutant(prompt) == processString(prompt)
FunctionResult(prompt) == << prompt >>

(* line 133: prompts.push(...processedPrompts)                             *)
PushAll(list, items) == list \o items

(* lines 135-141: the fallback to the raw string                           *)
WithFallbackMutant(list, prompt, filePath) ==
    IF Len(list) = 0
    THEN processString(Partial(Str(filePath), prompt.label, prompt.function))
    ELSE list
WithFallback(list, prompt, filePath) ==
    IF Len(list) = 0 THEN PushAll(list, processString(prompt)) ELSE list

(* lines 145-166: the format dispatch chain                                *)
HandlerFor(extension) ==
    LET e == extension.s
        has == IsString(extension) /\ e # ""
    IN  CASE has /\ e = ".json" -> "processJsonFile"
          [] has /\ e = ".jsonl" -> "processJsonlFile"
          [] has /\ isJavascriptFile(e) -> "processJsFile"
          [] has /\ e = ".md" -> "processMarkdownFile"
          [] has /\ e = ".py" -> "processPythonFile"
          [] has /\ e = ".txt" -> "processTxtFile"
          [] has /\ e \in {".yml", ".yaml"} -> "processYamlFile"
          [] OTHER -> "none"

(* One entry of the history of calls.                                      *)
Event(op, arg, val) ==
    [op |-> op, arg |-> arg, val |-> val, depth |-> Top.depth,
     nesting |-> Len(stack), partial |-> idx]

(* A call resolves: its frame is popped and its value handed to the caller.*)
Resolve(kind, result, trail, events) ==
    /\ stack' = SubSeq(stack, 1, Len(stack) - 1)
    /\ ret' = [ok |-> TRUE, val |-> result]
    /\ last' = [prompt |-> Top.prompt, depth |-> Top.depth, kind |-> kind,
                result |-> result, globbedPath |-> Top.globbedPath,
                children |-> Top.children, trail |-> trail,
                nesting |-> Len(stack)]
    /\ log' = log \o events \o <<Event("return", "", result)>>

(* A call throws: no frame catches, so the whole call tree is abandoned.   *)
Throw(message) ==
    /\ stack' = <<>>
    /\ ret' = NoRet
    /\ status' = "threw"
    /\ error' = message

(* lines 93-96: invariant(typeof prompt.raw === 'string', ...)             *)
RawNotString ==
    /\ Running /\ Top.pc = "enter"
    /\ ~IsString(Top.prompt.raw)
    /\ Throw("Invariant failed: prompt.raw must be a string, but got "
                \o JSONstringify(Top.prompt.raw))
    /\ last' = [NoCall EXCEPT !.prompt = Top.prompt, !.depth = Top.depth,
                              !.kind = "threw", !.nesting = Len(stack)]
    /\ UNCHANGED <<entry, promptPartials, envDisableWarning, initialDepth, idx,
                   prompts, promptsWithoutVars, warnings, log, mapperVars>>

(* lines 99-101: a raw function is returned as it is                       *)
FunctionPrompt ==
    /\ Running /\ Top.pc = "enter"
    /\ IsString(Top.prompt.raw)
    /\ Truthy(Top.prompt.function)
    /\ Resolve("function", FunctionResult(Top.prompt), Top.trail, <<>>)
    /\ UNCHANGED <<entry, promptPartials, envDisableWarning, initialDepth, idx,
                   prompts, promptsWithoutVars, status, error, warnings,
                   mapperVars>>

(* lines 103-105: not a file path, so a prompt string                      *)
StringPrompt ==
    /\ Running /\ Top.pc = "enter"
    /\ IsString(Top.prompt.raw)
    /\ ~Truthy(Top.prompt.function)
    /\ ~IsFilePath[Top.prompt.raw.s]
    /\ Resolve("string", processString(Top.prompt),
               Top.trail \o <<"maybeFilePath">>, <<>>)
    /\ UNCHANGED <<entry, promptPartials, envDisableWarning, initialDepth, idx,
                   prompts, promptsWithoutVars, status, error, warnings,
                   mapperVars>>

(* lines 103-119: a file path is parsed, and either expanded or dispatched *)
ParsePath ==
    /\ Running /\ Top.pc = "enter"
    /\ IsString(Top.prompt.raw)
    /\ ~Truthy(Top.prompt.function)
    /\ IsFilePath[Top.prompt.raw.s]
    /\ LET parsed == Parsed[Top.prompt.raw.s]
       IN  stack' = SetTop([Top EXCEPT
                !.filePath = parsed.filePath,
                !.extension = parsed.extension,
                !.pc = IF ShouldExpand(parsed.isPathPattern, Top.depth)
                       THEN "glob" ELSE "dispatch",
                !.trail = @ \o <<"maybeFilePath", "parsePathOrGlob">>])
    /\ UNCHANGED <<entry, promptPartials, envDisableWarning, initialDepth, idx,
                   ret, prompts, promptsWithoutVars, status, error, warnings,
                   last, log, mapperVars>>

(* lines 120-126: globSync lists the pattern's matches                     *)
GlobExpand ==
    /\ Running /\ Top.pc = "glob"
    /\ \E listing \in Listings[Top.filePath] :
          /\ stack' = SetTop([Top EXCEPT !.globbedPath = listing, !.gi = 1,
                                         !.prompts = <<>>, !.pc = "loop",
                                         !.trail = @ \o <<"globSync">>])
          /\ log' = Append(log, Event("globSync", Top.filePath, listing))
    /\ UNCHANGED <<entry, promptPartials, envDisableWarning, initialDepth, idx,
                   ret, prompts, promptsWithoutVars, status, error, warnings,
                   last, mapperVars>>

(* lines 127-132: the recursive call for the next matched path             *)
GlobRecurse ==
    /\ Running /\ Top.pc = "loop"
    /\ Top.gi <= Len(Top.globbedPath)
    /\ stack' = Append(SetTop([Top EXCEPT !.pc = "await"]),
                       Frame(Partial(Str(Top.globbedPath[Top.gi]), Undef, Undef),
                             ChildDepth(Top.depth)))
    /\ UNCHANGED <<entry, promptPartials, envDisableWarning, initialDepth, idx,
                   ret, prompts, promptsWithoutVars, status, error, warnings,
                   last, log, mapperVars>>

(* line 133: the awaited call's prompts are appended                       *)
GlobCollect ==
    /\ Running /\ Top.pc = "await" /\ ret.ok
    /\ stack' = SetTop([Top EXCEPT !.prompts = PushAll(@, ret.val),
                                   !.children = Append(@, ret.val),
                                   !.gi = @ + 1, !.pc = "loop"])
    /\ ret' = NoRet
    /\ UNCHANGED <<entry, promptPartials, envDisableWarning, initialDepth, idx,
                   prompts, promptsWithoutVars, status, error, warnings,
                   last, log, mapperVars>>

(* lines 135-142: after the loop                                           *)
GlobReturn ==
    /\ Running /\ Top.pc = "loop"
    /\ Top.gi > Len(Top.globbedPath)
    /\ Resolve("glob", WithFallback(Top.prompts, Top.prompt, Top.filePath),
               Top.trail, <<>>)
    /\ UNCHANGED <<entry, promptPartials, envDisableWarning, initialDepth, idx,
                   prompts, promptsWithoutVars, status, error, warnings,
                   mapperVars>>

(* lines 145-166: the handler of the extension returns its prompts, or     *)
(* there is no handler and the call returns []                             *)
Dispatch ==
    /\ Running /\ Top.pc = "dispatch"
    /\ LET handler == HandlerFor(Top.extension)
           result == HandlerResult(handler, Top.filePath, Top.prompt)
       IN  IF handler = "none"
           THEN Resolve("dispatch", <<>>, Top.trail, <<>>)
           ELSE Resolve("dispatch", result, Top.trail \o <<handler>>,
                        <<Event(handler, Top.filePath, result)>>)
    /\ UNCHANGED <<entry, promptPartials, envDisableWarning, initialDepth, idx,
                   prompts, promptsWithoutVars, status, error, warnings,
                   mapperVars>>

(* lines 145-165: the handler's own failure propagates                     *)
HandlerThrows ==
    /\ Running /\ Top.pc = "dispatch"
    /\ MayFail(HandlerFor(Top.extension))
    /\ Throw("handler failed: " \o Top.filePath)
    /\ log' = Append(log, Event(HandlerFor(Top.extension), Top.filePath, <<>>))
    /\ UNCHANGED <<entry, promptPartials, envDisableWarning, initialDepth, idx,
                   prompts, promptsWithoutVars, warnings, last, mapperVars>>

processPrompt ==
    \/ RawNotString
    \/ FunctionPrompt
    \/ StringPrompt
    \/ ParsePath
    \/ GlobExpand
    \/ GlobRecurse
    \/ GlobCollect
    \/ GlobReturn
    \/ Dispatch
    \/ HandlerThrows

----------------------------------------------------------------------------
(* readPrompts (lines 175-206).                                            *)

(* line 185: promptBatch.length === 0                                      *)
IsEmptyBatchMutant(promptBatch) == FALSE
IsEmptyBatch(promptBatch) == Len(promptBatch) = 0

(* line 191: processedPrompt.label || processedPrompt.raw.substring(0, 50) *)
ExampleOf(processedPrompt) ==
    IF Truthy(processedPrompt.label)
    THEN processedPrompt.label.s
    ELSE Substring0(processedPrompt.raw.s, ExampleChars)

(* lines 189-192: the prompts of a batch that go to promptsWithoutVars     *)
RECURSIVE WithoutVars(_, _)
WithoutVars(promptBatch, disabled) ==
    IF promptBatch = <<>> THEN <<>>
    ELSE LET processedPrompt == Head(promptBatch)
             rest == WithoutVars(Tail(promptBatch), disabled)
         IN  IF ~Variables[processedPrompt.raw.s] /\ ~disabled
             THEN <<ExampleOf(processedPrompt)>> \o rest
             ELSE rest

(* line 193: prompts.push(processedPrompt), for every prompt of the batch  *)
PushBatchMutant(list, promptBatch) == promptBatch \o list
PushBatch(list, promptBatch) == list \o promptBatch

(* line 199: promptsWithoutVars.slice(0, 3)                                *)
ExamplesMutant(list) == list
Examples(list) == SubSeq(list, 1, Min(MaxExamples, Len(list)))

(* lines 197-202: the text given to logger.warn, by its parts              *)
WarningOf(list) ==
    [count |-> Len(list), plural |-> Len(list) > 1,
     examples |-> Examples(list), ellipsis |-> Len(list) > MaxExamples]

(* lines 183-184: the next partial is handed to processPrompt              *)
CallProcessPrompt ==
    /\ entry = "readPrompts" /\ status = "running"
    /\ stack = <<>> /\ ~ret.ok
    /\ idx <= Len(promptPartials)
    /\ stack' = <<Frame(promptPartials[idx], DefaultMaxRecursionDepth)>>
    /\ log' = Append(log, [op |-> "processPrompt",
                           arg |-> JSONstringify(promptPartials[idx].raw),
                           val |-> <<>>, depth |-> DefaultMaxRecursionDepth,
                           nesting |-> 0, partial |-> idx])
    /\ UNCHANGED <<entry, promptPartials, envDisableWarning, initialDepth, idx,
                   ret, prompts, promptsWithoutVars, status, error, warnings,
                   last, mapperVars>>

(* lines 185-187: an empty batch is fatal                                  *)
NoPrompts ==
    /\ entry = "readPrompts" /\ status = "running"
    /\ stack = <<>> /\ ret.ok
    /\ IsEmptyBatch(ret.val)
    /\ Throw("There are no prompts in " \o JSONstringify(promptPartials[idx].raw))
    /\ UNCHANGED <<entry, promptPartials, envDisableWarning, initialDepth, idx,
                   prompts, promptsWithoutVars, warnings, last, log, mapperVars>>

(* lines 188-194: the batch is appended, its prompts without variables     *)
(* noted                                                                   *)
CollectBatch ==
    /\ entry = "readPrompts" /\ status = "running"
    /\ stack = <<>> /\ ret.ok
    /\ ~IsEmptyBatch(ret.val)
    /\ promptsWithoutVars' =
          promptsWithoutVars \o WithoutVars(ret.val, envDisableWarning)
    /\ prompts' = PushBatch(prompts, ret.val)
    /\ idx' = idx + 1
    /\ ret' = NoRet
    /\ log' = Append(log, [op |-> "batch", arg |-> "", val |-> ret.val,
                           depth |-> 0, nesting |-> 0, partial |-> idx])
    /\ UNCHANGED <<entry, promptPartials, envDisableWarning, initialDepth,
                   stack, status, error, warnings, last, mapperVars>>

(* lines 196-205: the warning, and the return                              *)
ReturnPrompts ==
    /\ entry = "readPrompts" /\ status = "running"
    /\ stack = <<>> /\ ~ret.ok
    /\ idx > Len(promptPartials)
    /\ warnings' = IF Len(promptsWithoutVars) > 0
                   THEN Append(warnings, WarningOf(promptsWithoutVars))
                   ELSE warnings
    /\ status' = "returned"
    /\ UNCHANGED <<entry, promptPartials, envDisableWarning, initialDepth, idx,
                   stack, ret, prompts, promptsWithoutVars, error, last, log,
                   mapperVars>>

readPrompts ==
    \/ CallProcessPrompt
    \/ NoPrompts
    \/ CollectBatch
    \/ ReturnPrompts

(* A caller's own processPrompt(prompt, basePath, maxRecursionDepth)       *)
(* resolves: ret holds its value.                                          *)
DirectReturn ==
    /\ entry = "processPrompt" /\ status = "running"
    /\ stack = <<>> /\ ret.ok
    /\ status' = "returned"
    /\ UNCHANGED <<entry, promptPartials, envDisableWarning, initialDepth, idx,
                   stack, ret, prompts, promptsWithoutVars, error, warnings,
                   last, log, mapperVars>>

----------------------------------------------------------------------------
(* readProviderPromptMap (lines 32-79).                                    *)

(* An object is the sequence of its <<key, value>> pairs, in key order.    *)
HasKey(o, key) == \E i \in 1..Len(o) : o[i][1] = key
Get(o, key) ==
    IF HasKey(o, key)
    THEN o[CHOOSE i \in 1..Len(o) : o[i][1] = key][2]
    ELSE Undef

(* v.key: undefined on a value that is no object, a TypeError (CanRead)    *)
(* on undefined                                                            *)
CanRead(v) == v.t # "undefined"
Prop(v, key) == IF v.t = "object" THEN Get(v.o, key) ELSE Undef

EmptyMap == [k \in {} |-> <<>>]
Put(m, k, v) == (k :> v) @@ m

(* lines 42-45                                                             *)
AllPrompts(parsed) == [i \in 1..Len(parsed) |-> parsed[i].label]

(* lines 64, 66, 73: x.prompts || allPrompts                               *)
PromptsOrAll(p, allPrompts) == IF Truthy(p) THEN p.a ELSE allPrompts

(* lines 64-67: the entry's id, and its label if it has one                *)
PutWithIdMutant(m, rawProvider, allPrompts) ==
    Put(m, Prop(rawProvider, "id").s,
        PromptsOrAll(Prop(rawProvider, "prompts"), allPrompts))
PutWithId(m, rawProvider, allPrompts) ==
    LET byId == Put(m, Prop(rawProvider, "id").s,
                    PromptsOrAll(Prop(rawProvider, "prompts"), allPrompts))
    IN  IF Truthy(Prop(rawProvider, "label"))
        THEN Put(byId, Prop(rawProvider, "label").s,
                 PromptsOrAll(Prop(rawProvider, "prompts"), allPrompts))
        ELSE byId

MapRunning == entry = "readProviderPromptMap" /\ status = "running"
Provider == providers.a[pidx]

MapDone(m) ==
    /\ pret' = m
    /\ status' = "returned"
    /\ UNCHANGED <<entry, error, providers, parsedPrompts, pidx, resolverVars>>

(* lines 38-40: if (!config.providers) return ret                          *)
MapNoProviders ==
    /\ MapRunning /\ ~Truthy(providers)
    /\ MapDone(EmptyMap)

(* lines 47-49                                                             *)
MapString ==
    /\ MapRunning /\ Truthy(providers) /\ providers.t = "string"
    /\ MapDone(Put(EmptyMap, providers.s, AllPrompts(parsedPrompts)))

(* lines 51-53                                                             *)
MapFunction ==
    /\ MapRunning /\ Truthy(providers) /\ providers.t = "function"
    /\ MapDone(Put(EmptyMap, "Custom function", AllPrompts(parsedPrompts)))

MapLoop == MapRunning /\ providers.t = "array" /\ pidx <= Len(providers.a)

(* line 56: an entry that is no object is passed over                      *)
MapSkip ==
    /\ MapLoop /\ Provider.t # "object"
    /\ pidx' = pidx + 1
    /\ UNCHANGED <<entry, status, error, providers, parsedPrompts, pret,
                   resolverVars>>

(* lines 58-67: an entry with an id.  The invariant of lines 60-63 tests   *)
(* the value line 58 has just found truthy, so it never fails.             *)
MapWithId ==
    /\ MapLoop /\ Provider.t = "object"
    /\ Truthy(Prop(Provider, "id"))
    /\ pret' = PutWithId(pret, Provider, AllPrompts(parsedPrompts))
    /\ pidx' = pidx + 1
    /\ UNCHANGED <<entry, status, error, providers, parsedPrompts, resolverVars>>

(* lines 69-73: an entry without an id is read as { originalId: options }  *)
MapKeyed ==
    /\ MapLoop /\ Provider.t = "object"
    /\ ~Truthy(Prop(Provider, "id"))
    /\ Len(Provider.o) > 0
    /\ LET originalId == Provider.o[1][1]
           providerObject == Get(Provider.o, originalId)
           id == IF Truthy(Prop(providerObject, "id"))
                 THEN Prop(providerObject, "id").s ELSE originalId
       IN  /\ CanRead(providerObject)
           /\ pret' = Put(pret, id,
                          PromptsOrAll(Prop(providerObject, "prompts"),
                                       AllPrompts(parsedPrompts)))
    /\ pidx' = pidx + 1
    /\ UNCHANGED <<entry, status, error, providers, parsedPrompts, resolverVars>>

(* lines 70-72: providerObject is undefined, reading its id throws         *)
MapTypeError ==
    /\ MapLoop /\ Provider.t = "object"
    /\ ~Truthy(Prop(Provider, "id"))
    /\ \/ Len(Provider.o) = 0
       \/ Len(Provider.o) > 0 /\ ~CanRead(Get(Provider.o, Provider.o[1][1]))
    /\ status' = "threw"
    /\ error' = "TypeError: Cannot read properties of undefined (reading 'id')"
    /\ UNCHANGED <<entry, providers, parsedPrompts, pidx, pret, resolverVars>>

(* line 78                                                                 *)
MapReturn ==
    /\ MapRunning /\ providers.t = "array" /\ pidx > Len(providers.a)
    /\ MapDone(pret)

readProviderPromptMap ==
    \/ MapNoProviders
    \/ MapString
    \/ MapFunction
    \/ MapSkip
    \/ MapWithId
    \/ MapKeyed
    \/ MapTypeError
    \/ MapReturn

(* The provider configurations and prompt lists the model explores.        *)
P1 == <<"prompts", Arr(<<Str("p1")>>)>>
P2 == <<"prompts", Arr(<<Str("p2")>>)>>
ProviderEntries ==
    { Str("openai:gpt-4"),
      Obj(<< <<"id", Str("x")>> >>),
      Obj(<< <<"id", Str("x2")>>, P1 >>),
      Obj(<< <<"id", Str("y")>>, <<"label", Str("x")>>, P2 >>),
      Obj(<< <<"id", Str("z")>>, <<"label", Str("Z")>> >>),
      Obj(<< <<"m", Obj(<< P1 >>)>> >>),
      Obj(<< <<"k", Obj(<< <<"id", Str("n")>>, <<"label", Str("N")>> >>)>> >>),
      Obj(<< P1 >>),
      Obj(<< <<"label", Str("Y")>>, P2 >>),
      Obj(<< <<"id", Undef>>, P1 >>),
      Obj(<<>>) }

ProviderConfigs ==
    {Undef, Str(""), Str("providerA"), Fn("callApi")}
        \cup {Arr(q) : q \in UNION {[1..n -> ProviderEntries] : n \in 0..MaxProviders}}

ParsedPromptLists ==
    { << Partial(Str("Hello {{name}}"), Str("p1"), Undef),
         Partial(Str("Bye {{name}}"), Str("p2"), Undef) >>,
      << Partial(Str("Bye {{name}}"), Str("p2"), Undef) >> }

----------------------------------------------------------------------------
(* The three entry points, each from the state its caller sets up.         *)
ResolverIdle ==
    /\ promptPartials = <<>> /\ envDisableWarning = FALSE
    /\ initialDepth = DefaultMaxRecursionDepth
    /\ idx = 1 /\ stack = <<>> /\ ret = NoRet
    /\ prompts = <<>> /\ promptsWithoutVars = <<>>
    /\ warnings = <<>> /\ last = NoCall /\ log = <<>>

MapperIdle ==
    /\ providers = Undef /\ parsedPrompts = <<>> /\ pidx = 1 /\ pret = EmptyMap

InitReadPrompts ==
    /\ entry = "readPrompts"
    /\ promptPartials \in UNION {[1..n -> InputPartials] : n \in 0..MaxPartials}
    /\ envDisableWarning \in BOOLEAN
    /\ initialDepth = DefaultMaxRecursionDepth
    /\ idx = 1 /\ stack = <<>> /\ ret = NoRet
    /\ prompts = <<>> /\ promptsWithoutVars = <<>>
    /\ warnings = <<>> /\ last = NoCall /\ log = <<>>
    /\ MapperIdle

InitProcessPrompt ==
    /\ entry = "processPrompt"
    /\ initialDepth \in 0..MaxBudget
    /\ \E p \in InputPartials : stack = <<Frame(p, initialDepth)>>
    /\ promptPartials = <<>> /\ envDisableWarning = FALSE
    /\ idx = 1 /\ ret = NoRet
    /\ prompts = <<>> /\ promptsWithoutVars = <<>>
    /\ warnings = <<>> /\ last = NoCall /\ log = <<>>
    /\ MapperIdle

InitReadProviderPromptMap ==
    /\ entry = "readProviderPromptMap"
    /\ providers \in ProviderConfigs
    /\ parsedPrompts \in ParsedPromptLists
    /\ pidx = 1 /\ pret = EmptyMap
    /\ ResolverIdle

Init ==
    /\ status = "running" /\ error = ""
    /\ \/ InitReadPrompts
       \/ InitProcessPrompt
       \/ InitReadProviderPromptMap

Next ==
    \/ processPrompt
    \/ readPrompts
    \/ DirectReturn
    \/ readProviderPromptMap

Spec == Init /\ [][Next]_vars

(* Every step is a step of the one thread of control, which runs until the *)
(* call returns or throws.                                                 *)
FairSpec == Spec /\ WF_vars(Next)

----------------------------------------------------------------------------
(* Properties.                                                             *)

InReadPrompts == entry = "readPrompts"
Events(op) == SelectSeq(log, LAMBDA e : e.op = op)
(* The values processPrompt resolved to for the top-level partials, in the *)
(* order the calls resolved.                                               *)
TopReturns == SelectSeq(log, LAMBDA e : e.op = "return" /\ e.nesting = 1)
Values(events) == [i \in 1..Len(events) |-> events[i].val]
IsHandler(op) == op \notin {"processPrompt", "globSync", "return", "batch"}

(* processPrompt has resolved to [] for partial idx, and readPrompts has   *)
(* not yet looked at the value.                                            *)
EmptyResolved ==
    /\ InReadPrompts /\ status = "running"
    /\ stack = <<>> /\ ret.ok /\ ret.val = <<>>

(* C1: when processPrompt resolves to an empty list for a partial, the     *)
(* only thing readPrompts does next is throw the Error naming that         *)
(* partial's raw, JSON-encoded; no prompt list is returned, the partial    *)
(* named is the first that resolved to nothing (every earlier one gave a   *)
(* non-empty batch), and no later partial has been or is handed to         *)
(* processPrompt, globSync or a format handler.                            *)
C1_EmptyBatchIsFatal ==
    [][EmptyResolved =>
        /\ status' = "threw"
        /\ error' = "There are no prompts in "
                        \o JSONstringify(promptPartials[idx].raw)
        /\ Len(TopReturns) = idx
        /\ \A j \in 1..(idx - 1) : TopReturns[j].val # <<>>
        /\ \A i \in DOMAIN log : log[i].partial <= idx
        /\ log' = log /\ prompts' = prompts /\ idx' = idx]_vars

C1_Witness ==
    /\ InReadPrompts /\ status = "threw"
    /\ Len(promptPartials) = 2 /\ idx = 2 /\ Len(prompts) > 0
    /\ promptPartials[2].raw = Str("notes.foo")
    /\ error = "There are no prompts in \"notes.foo\""
    /\ Events("processPrompt") # <<>>

(* C2: the list readPrompts has built is at every moment the concatenation,*)
(* in input order, of what processPrompt resolved to for the partials      *)
(* handled so far, so the list returned is that of all of them; and the    *)
(* call for a partial is made only after the call for the partial before   *)
(* it has resolved: the history never goes back to an earlier partial.     *)
C2_ConcatenationInInputOrder ==
    InReadPrompts =>
        /\ prompts = Flatten(Values(SubSeq(TopReturns, 1, idx - 1)))
        /\ \A j \in 1..Len(TopReturns) : TopReturns[j].partial = j
        /\ status = "returned" =>
              /\ Len(TopReturns) = Len(promptPartials)
              /\ prompts = Flatten(Values(TopReturns))
              /\ \A j \in 1..Len(TopReturns) : TopReturns[j].val # <<>>
        /\ \A i \in DOMAIN log :
              /\ \A k \in 1..(i - 1) : log[k].partial <= log[i].partial
              /\ (log[i].op = "processPrompt" /\ log[i].partial > 1) =>
                    \E k \in 1..(i - 1) :
                        /\ log[k].op = "return" /\ log[k].nesting = 1
                        /\ log[k].partial = log[i].partial - 1
        /\ Len(stack) > 0 => Len(TopReturns) = idx - 1

C2_Witness ==
    /\ InReadPrompts /\ status = "returned"
    /\ Len(promptPartials) = 2
    /\ Len(TopReturns[1].val) = 4 /\ Len(TopReturns[2].val) = 1
    /\ Len(prompts) = 5 /\ prompts[5].raw = Str("Hello {{name}}")

(* The completed call `last` was for a file reference that is a glob       *)
(* pattern, resolved with a positive depth.                                *)
LastDone == last.kind \notin {"none", "threw"}
LastIsReference ==
    /\ LastDone
    /\ ~Truthy(last.prompt.function)
    /\ IsFilePath[last.prompt.raw.s]
LastIsPattern == LastIsReference /\ Parsed[last.prompt.raw.s].isPathPattern

(* C3: a glob pattern resolved with a positive depth whose expansion       *)
(* matched nothing gives exactly one prompt, processString of the original *)
(* partial: its raw is the pattern as given, not the joined file path, and *)
(* no format handler has been called.                                      *)
C3_NoMatchFallsBackToString ==
    (LastIsPattern /\ last.depth > 0 /\ last.globbedPath = <<>>) =>
        /\ last.result = processString(last.prompt)
        /\ Len(last.result) = 1
        /\ last.result[1].raw = last.prompt.raw
        /\ last.trail = <<"maybeFilePath", "parsePathOrGlob", "globSync">>
        /\ last.children = <<>>

C3_Witness ==
    /\ LastIsPattern /\ last.depth = 1 /\ last.globbedPath = <<>>
    /\ last.prompt.raw = Str("prompts/*")
    /\ Parsed["prompts/*"].filePath = "/w/prompts/*"
    /\ last.result = << Partial(Str("prompts/*"), Str("prompts/*"), Undef) >>

(* C4: a glob pattern resolved with a positive depth whose expansion       *)
(* matched N >= 1 paths gives the concatenation, in match order, of what   *)
(* the calls for the matched paths resolved to.                            *)
C4_MatchesAreConcatenated ==
    (LastIsPattern /\ last.depth > 0 /\ Len(last.globbedPath) >= 1) =>
        /\ Len(last.children) = Len(last.globbedPath)
        /\ last.result = Flatten(last.children)

(* What the code does: the concatenation whenever it is not empty, and     *)
(* the raw string (as for no match) when every matched path gave [].       *)
C4_NonEmptyConcatenation ==
    (LastIsPattern /\ last.depth > 0 /\ Len(last.globbedPath) >= 1) =>
        /\ Len(last.children) = Len(last.globbedPath)
        /\ last.result = IF Flatten(last.children) # <<>>
                         THEN Flatten(last.children)
                         ELSE processString(last.prompt)

(* C5: globSync is only ever called by a call whose depth is positive; a   *)
(* pattern resolved with depth <= 0 goes to the format dispatch as a       *)
(* literal path (the extension's handler gives the result, [] when there   *)
(* is no handler) without globSync; and every recursive call is made with  *)
(* its caller's depth less one.                                            *)
C5_ExpansionNeedsBudget ==
    /\ \A i \in DOMAIN log : log[i].op = "globSync" => log[i].depth > 0
    /\ \A i \in DOMAIN stack : stack[i].pc \in {"glob", "loop", "await"} =>
            stack[i].depth > 0
    /\ (LastIsPattern /\ last.depth <= 0) =>
          LET parsed == Parsed[last.prompt.raw.s]
              handler == HandlerFor(parsed.extension)
          IN  /\ last.kind = "dispatch"
              /\ last.globbedPath = <<>> /\ last.children = <<>>
              /\ last.trail = <<"maybeFilePath", "parsePathOrGlob">>
                                \o (IF handler = "none" THEN <<>> ELSE <<handler>>)
              /\ last.result = IF handler = "none" THEN <<>>
                               ELSE HandlerResult(handler, parsed.filePath,
                                                  last.prompt)
    /\ \A i \in 1..(Len(stack) - 1) : stack[i + 1].depth = stack[i].depth - 1

C5_Witness ==
    /\ LastIsPattern /\ last.depth = 0 /\ last.nesting = 2
    /\ last.prompt.raw = Str("/w/prompts/[d].txt")
    /\ last.trail = <<"maybeFilePath", "parsePathOrGlob", "processTxtFile">>
    /\ Len(last.result) = 1

(* C9: a partial with a function (and a string raw) resolves to the list   *)
(* of that very partial, and nothing is called for it (no path             *)
(* classification, no globSync, no handler), whatever its raw and its      *)
(* depth; a partial whose raw is no string throws before any other step,   *)
(* function or not.                                                        *)
C9_FunctionIsTerminal ==
    /\ \A i \in DOMAIN stack :
          (Truthy(stack[i].prompt.function) \/ ~IsString(stack[i].prompt.raw)) =>
              stack[i].pc = "enter" /\ stack[i].trail = <<>>
    /\ (LastDone /\ Truthy(last.prompt.function)) =>
          /\ IsString(last.prompt.raw)
          /\ last.kind = "function"
          /\ last.result = <<last.prompt>>
          /\ last.trail = <<>> /\ last.globbedPath = <<>>
    /\ (last.kind # "none" /\ ~IsString(last.prompt.raw)) =>
          /\ last.kind = "threw" /\ status = "threw"
          /\ last.trail = <<>>
          /\ StartsWith(error, "Invariant failed: prompt.raw must be a string")
          /\ \A i \in DOMAIN log :
                (log[i].partial = idx) => log[i].op = "processPrompt"

C9_Witness ==
    /\ LastDone /\ last.kind = "function" /\ last.depth = 0
    /\ last.prompt = Partial(Str("prompts/*"), Undef, Fn("myPrompt"))
    /\ IsFilePath["prompts/*"] /\ Parsed["prompts/*"].isPathPattern
    /\ last.result = <<last.prompt>>

(* The prompts of a list with no template variable, each by its label or, *)
(* unlabeled, by the first 50 characters of its raw.                       *)
RECURSIVE NamesWithoutVariables(_)
NamesWithoutVariables(list) ==
    IF list = <<>> THEN <<>>
    ELSE LET p == Head(list)
             name == IF p.label.t = "string" /\ p.label.s # ""
                     THEN p.label.s
                     ELSE SubSeq(p.raw.s, 1, Min(50, Len(p.raw.s)))
         IN  (IF Variables[p.raw.s] THEN <<>> ELSE <<name>>)
                \o NamesWithoutVariables(Tail(list))

(* C8: logger.warn is called at most once in a readPrompts call, and only  *)
(* by the return after the last partial; a call that returns has warned    *)
(* exactly when the flag is unset and some returned prompt has no          *)
(* variable, with the number of such prompts and the first three of them   *)
(* at most, named by label (or the first 50 characters of raw) in the      *)
(* order of the returned list; with the flag set nothing is ever warned.   *)
C8_OneAggregatedWarning ==
    InReadPrompts =>
        /\ Len(warnings) <= 1
        /\ warnings # <<>> => status = "returned" /\ idx = Len(promptPartials) + 1
        /\ envDisableWarning => warnings = <<>> /\ promptsWithoutVars = <<>>
        /\ status = "returned" =>
              LET names == NamesWithoutVariables(prompts)
              IN  /\ warnings # <<>> <=> (~envDisableWarning /\ names # <<>>)
                  /\ warnings # <<>> =>
                        /\ warnings[1].count = Len(names)
                        /\ Len(warnings[1].examples) = Min(3, Len(names))
                        /\ warnings[1].examples
                              = SubSeq(names, 1, Len(warnings[1].examples))
                        /\ warnings[1].ellipsis <=> Len(names) > 3
                        /\ \A i \in DOMAIN warnings[1].examples :
                              \/ Len(warnings[1].examples[i]) <= 50
                              \/ \E j \in DOMAIN prompts :
                                    prompts[j].label = Str(warnings[1].examples[i])

C8_Witness ==
    /\ InReadPrompts /\ status = "returned" /\ ~envDisableWarning
    /\ Len(warnings) = 1
    /\ warnings[1].count = 4 /\ Len(warnings[1].examples) = 3
    /\ warnings[1].examples[2] = SubSeq(LongText, 1, 50)
    /\ Len(LongText) > 50
    /\ \E j \in DOMAIN prompts : Variables[prompts[j].raw.s]

(* The collaborator calls made for top-level partial j.                    *)
GlobCalls(j) == SelectSeq(log, LAMBDA e : e.partial = j /\ e.op = "globSync")
HandlerCalls(j) == SelectSeq(log, LAMBDA e : e.partial = j /\ IsHandler(e.op))

(* C10, safety: the calls never nest deeper than the initial depth + 1; in *)
(* readPrompts (depth 1) globSync is called at most once for a top-level   *)
(* partial, and no path is handed to a handler twice.                      *)
C10_Bounded ==
    /\ Len(stack) <= initialDepth + 1
    /\ \A i \in DOMAIN stack : stack[i].depth = initialDepth - (i - 1)
    /\ InReadPrompts =>
          \A j \in 1..Len(promptPartials) :
              LET globs == GlobCalls(j)
                  handled == HandlerCalls(j)
              IN  /\ Len(globs) <= 1
                  /\ \A a, b \in DOMAIN handled :
                        a # b => handled[a].arg # handled[b].arg
                  /\ Len(handled) <= IF globs = <<>> THEN 1
                                     ELSE Len(globs[1].val)

(* C10: every call of processPrompt, and with it the call of the caller,   *)
(* ends: it returns or throws; and the bounds above hold throughout.       *)
C10_Terminates == []C10_Bounded /\ <>(status # "running")

C10_Witness ==
    /\ entry = "processPrompt" /\ initialDepth = 2 /\ Len(stack) = 3
    /\ stack[1].prompt.raw = Str("prompts/*")
    /\ stack[2].prompt.raw = Str("/w/prompts/[d].txt")
    /\ stack[3].depth = 0 /\ stack[3].pc = "dispatch"
    /\ Parsed[stack[3].prompt.raw.s].isPathPattern

(* The provider list entries, as the mapper's contract reads them.         *)
ProviderList == IF providers.t = "array" THEN providers.a ELSE <<>>
HasId(e) == e.t = "object" /\ HasKey(e.o, "id") /\ Truthy(Get(e.o, "id"))
(* { key: { id?, label?, prompts? } }                                      *)
IsKeyed(e) ==
    /\ e.t = "object" /\ ~HasKey(e.o, "id")
    /\ Len(e.o) = 1 /\ e.o[1][2].t = "object"
Options(e) == IF HasId(e) THEN e ELSE e.o[1][2]
Identifier(e) ==
    IF HasId(e) THEN Get(e.o, "id").s
    ELSE IF Truthy(Get(Options(e).o, "id")) THEN Get(Options(e).o, "id").s
    ELSE e.o[1][1]
HasLabel(e) == Truthy(Get(Options(e).o, "label"))
Label(e) == Get(Options(e).o, "label").s
Labels == AllPrompts(parsedPrompts)
Expected(e) ==
    IF HasKey(Options(e).o, "prompts") THEN Get(Options(e).o, "prompts").a
    ELSE Labels
ObjectEntries == {i \in DOMAIN ProviderList : ProviderList[i].t = "object"}
(* A list of bare strings and of object entries that have an identifier.   *)
WellFormedList ==
    /\ providers.t = "array"
    /\ \A i \in ObjectEntries : HasId(ProviderList[i]) \/ IsKeyed(ProviderList[i])
DistinctIdentifiers ==
    \A i, j \in ObjectEntries :
        i # j => Identifier(ProviderList[i]) # Identifier(ProviderList[j])
MapReturned == entry = "readProviderPromptMap" /\ status = "returned"

(* What C6 says of the cases other than the list.                          *)
C6_Scalars ==
    /\ ~Truthy(providers) => pret = EmptyMap
    /\ (providers.t = "string" /\ providers.s # "") =>
            pret = (providers.s :> Labels)
    /\ providers.t = "function" => pret = ("Custom function" :> Labels)

(* C6 as claimed: in a list of object entries with distinct identifiers,   *)
(* each entry's identifier, and its label if it has one, maps to the       *)
(* entry's own prompts, or to all labels; bare strings give no key.        *)
C6_AsClaimed ==
    MapReturned =>
        /\ C6_Scalars
        /\ (WellFormedList /\ DistinctIdentifiers) =>
              /\ \A i \in ObjectEntries :
                    LET e == ProviderList[i]
                    IN  /\ Identifier(e) \in DOMAIN pret
                        /\ pret[Identifier(e)] = Expected(e)
                        /\ HasLabel(e) =>
                              /\ Label(e) \in DOMAIN pret
                              /\ pret[Label(e)] = Expected(e)
              /\ DOMAIN pret =
                    {Identifier(ProviderList[i]) : i \in ObjectEntries}
                      \cup {Label(ProviderList[i]) :
                              i \in {k \in ObjectEntries : HasLabel(ProviderList[k])}}

(* The keys an entry is given: its identifier, and its label when the      *)
(* entry itself carries the id field.                                      *)
KeysOf(e) ==
    {Identifier(e)} \cup (IF HasId(e) /\ HasLabel(e) THEN {Label(e)} ELSE {})
DistinctKeys ==
    /\ \A i, j \in ObjectEntries :
          i # j => KeysOf(ProviderList[i]) \cap KeysOf(ProviderList[j]) = {}

(* C6, amended: in a list of object entries whose keys (the identifiers,   *)
(* and the labels of the entries that carry the id field themselves) are   *)
(* distinct from entry to entry, each entry's identifier maps to the       *)
(* entry's own prompts, or to all labels, and so does the label of an      *)
(* entry that carries the id field itself; there is no other key.          *)
C6_DefaultToAllLabels ==
    MapReturned =>
        /\ C6_Scalars
        /\ (WellFormedList /\ DistinctKeys) =>
              /\ \A i \in ObjectEntries :
                    \A k \in KeysOf(ProviderList[i]) :
                        k \in DOMAIN pret /\ pret[k] = Expected(ProviderList[i])
              /\ DOMAIN pret = UNION {KeysOf(ProviderList[i]) : i \in ObjectEntries}

C6_Witness ==
    /\ MapReturned /\ WellFormedList /\ DistinctKeys
    /\ Len(ProviderList) = 2 /\ Len(parsedPrompts) = 2
    /\ ProviderList[1] = Obj(<< <<"id", Str("y")>>, <<"label", Str("x")>>, P2 >>)
    /\ ProviderList[2] = Obj(<< <<"id", Str("z")>>, <<"label", Str("Z")>> >>)
    /\ pret["y"] = <<Str("p2")>> /\ pret["x"] = <<Str("p2")>>
    /\ pret["z"] = <<Str("p1"), Str("p2")>> /\ pret["Z"] = pret["z"]

OverridesWithoutId(e) ==
    e.t = "object" /\ HasKey(e.o, "prompts") /\ ~HasKey(e.o, "id")

(* C7: an object entry with a prompts override and no id field makes the   *)
(* call throw: it never returns a map.                                     *)
C7_OverrideNeedsId ==
    (entry = "readProviderPromptMap" /\ status # "running"
        /\ \E i \in DOMAIN ProviderList : OverridesWithoutId(ProviderList[i]))
    => status = "threw"

====
